---- MODULE Spec2Model ----
(***************************************************************************)
(* ChiX editor: the tab/document lifecycle of chix/ui/tabs.py (TabView),   *)
(* the file writes of chix/core/file_ops.py, the editor events of          *)
(* chix/ui/widgets.py that reach TabView, and the external-process calls   *)
(* of chix/core/compiler.py and chix/core/interpreter.py.                  *)
(*                                                                         *)
(* The specifications share the variables:                                 *)
(*   Spec     the TabView state machine (one action per handler)           *)
(*   SpecRun  the Compiler / Interpreter calls, one action per step        *)
(*   FairSpecRun  SpecRun with the scheduling fairness of the worker       *)
(*   SpecProject  the ProjectManager of chix/core/project.py               *)
(***************************************************************************)
EXTENDS Integers, Sequences, FiniteSets, TLC

VARIABLES
    tabs,            \* TabView.tabs: insertion-ordered dict, as a sequence of tab records
    tab_buttons,     \* TabView.tab_buttons: tab id -> [is_active, is_modified]
    tab_counter,     \* TabView.tab_counter
    current_tab_id,  \* TabView.current_tab_id
    active_editor,   \* state["active_editor"] (an editor is named by its tab's id)
    current_file,    \* state["current_file"]
    disk,            \* the file system: path -> [exists, content]
    temp,            \* the autosave directory: temp_id -> [exists, content]
    last,            \* the handler that returned last, its arguments and its result
    run,             \* the state of one Compiler/Interpreter call (SpecRun)
    proj             \* the ProjectManager, the shared settings and the project directory (SpecProject)

tabVars == <<tabs, tab_buttons, tab_counter, current_tab_id, active_editor,
             current_file, disk, temp, last>>
vars == <<tabs, tab_buttons, tab_counter, current_tab_id, active_editor,
          current_file, disk, temp, last, run, proj>>

(***************************************************************************)
(* Bounds of the model.                                                    *)
(***************************************************************************)
MaxTabs == 3          \* Spec: tabs open at the same time
MaxCounter == 3       \* Spec: tabs ever created (caps tab_counter)
FileMaxTabs == 2      \* SpecFiles: tabs open at the same time
FileMaxCounter == 2   \* SpecFiles: tabs ever created
MaxClock == 12        \* SpecRun: the clock stops after this many seconds
PipeCap == 2          \* SpecRun: lines a pipe buffers before the writer blocks

(***************************************************************************)
(* Values.                                                                 *)
(***************************************************************************)
NoTab == -1                      \* Python None for a tab id / an editor
NoPath == "None"                 \* Python None for a file path
Paths == {"a.c"}
PathsOrNone == Paths \cup {NoPath}
LoadErrorText == <<"#">>         \* "# Error loading file: ..." placeholder
Texts == {<<>>, <<"x">>, LoadErrorText}
TabIds == 0 .. 9                  \* "tab_0" .. "tab_9"
Faults == {"ok", "open_fail", "write_fail"}
CloseFaults == {"ok", "write_fail"}   \* the faults drawn for a save run by close_tab
NoFile == [exists |-> FALSE, content |-> <<>>]
File(text) == [exists |-> TRUE, content |-> text]

(***************************************************************************)
(* Helpers over the ordered tab mapping.                                   *)
(***************************************************************************)
Keys(ts) == [i \in 1 .. Len(ts) |-> ts[i].id]
KeySet(ts) == {ts[i].id : i \in 1 .. Len(ts)}
HasTab(ts, t) == t \in KeySet(ts)
IndexOf(ts, t) == CHOOSE i \in 1 .. Len(ts) : ts[i].id = t
TabOf(ts, t) == ts[IndexOf(ts, t)]
DelTab(ts, t) == SelectSeq(ts, LAMBDA r : r.id # t)
SetTab(ts, t, r) == [ts EXCEPT ![IndexOf(ts, t)] = r]

\* The TabView object together with the shared state and the files it touches.
TV == [tabs |-> tabs, tab_buttons |-> tab_buttons, tab_counter |-> tab_counter,
       current_tab_id |-> current_tab_id, active_editor |-> active_editor,
       current_file |-> current_file, disk |-> disk, temp |-> temp]

\* open(path, "w") followed by f.write(content): the open may fail (nothing
\* touched); once opened the file exists and is truncated, and a write that
\* fails leaves it truncated.
write_file(d, path, content, fault) ==
    CASE fault = "ok"         -> [d EXCEPT ![path] = File(content)]
      [] fault = "open_fail"  -> d
      [] fault = "write_fail" -> [d EXCEPT ![path] = File(<<>>)]


\* A mutant of save_to_temp: one snapshot file for every tab.
save_to_temp_one_file(tmp, content, file_id, ok) ==
    IF ok THEN [tmp EXCEPT ![0] = File(content)] ELSE tmp

\* file_ops.save_to_temp: the snapshot file <temp dir>/<file_id>.temp; a write
\* error is printed and swallowed.
save_to_temp(tmp, content, file_id, ok) ==
    IF ok THEN [tmp EXCEPT ![file_id] = File(content)] ELSE tmp

\* TabView.mark_tab_modified
do_mark_tab_modified(tv, t, m) ==
    IF ~HasTab(tv.tabs, t) THEN tv
    ELSE LET tv1 == [tv EXCEPT !.tabs = SetTab(tv.tabs, t,
                                   [TabOf(tv.tabs, t) EXCEPT !.modified = m])]
         IN  IF t \in DOMAIN tv.tab_buttons
             THEN [tv1 EXCEPT !.tab_buttons[t].is_modified = m]
             ELSE tv1

\* A mutant of do_select_tab: state["current_file"] is not updated.
do_select_tab_keeping_file(tv, t) ==
    IF ~HasTab(tv.tabs, t) THEN tv
    ELSE [tv EXCEPT
            !.tab_buttons = [b \in DOMAIN tv.tab_buttons |->
                               [tv.tab_buttons[b] EXCEPT !.is_active = (b = t)]],
            !.current_tab_id = t,
            !.active_editor = t]

\* TabView.select_tab
do_select_tab(tv, t) ==
    IF ~HasTab(tv.tabs, t) THEN tv
    ELSE [tv EXCEPT
            !.tab_buttons = [b \in DOMAIN tv.tab_buttons |->
                               [tv.tab_buttons[b] EXCEPT !.is_active = (b = t)]],
            !.current_tab_id = t,
            !.active_editor = t,
            !.current_file = TabOf(tv.tabs, t).file_path]

\* A file holds bytes and an editor holds characters.  "x" and "#" stand for
\* ASCII bytes and characters, which UTF-8 and latin-1 decode and encode alike;
\* HighByte is the byte 0xE9, which alone is no valid UTF-8 and is the
\* character EAcute in latin-1.
HighByte == "0xE9"
EAcute == "e-acute"

\* bytes.decode("utf-8") succeeds
utf8_decodable(bytes) == \A i \in 1 .. Len(bytes) : bytes[i] # HighByte

\* bytes.decode("utf-8") of decodable bytes
utf8_decode(bytes) == bytes

\* bytes.decode("latin-1"), which never fails
latin1_decode(bytes) ==
    [i \in 1 .. Len(bytes) |-> IF bytes[i] = HighByte THEN EAcute ELSE bytes[i]]

\* with open(file_path, "r") as f: content = f.read()  -- one attempt, in the
\* default encoding (UTF-8); load_ok: the read meets no I/O error.  Any
\* exception gives the error placeholder.
load_text(bytes, load_ok) ==
    IF load_ok /\ utf8_decodable(bytes) THEN utf8_decode(bytes) ELSE LoadErrorText

\* The text create_tab puts in the new editor: the content argument when it is
\* truthy, else the file's content when file_path names an existing file that
\* can be read, else the error placeholder, else nothing.
initial_text(tv, file_path, content, load_ok) ==
    IF content # <<>> THEN content
    ELSE IF file_path # NoPath /\ tv.disk[file_path].exists
         THEN load_text(tv.disk[file_path].content, load_ok)
         ELSE <<>>

\* TabView.create_tab
do_create_tab(tv, file_path, content, load_ok, temp_ok) ==
    LET tab_id == tv.tab_counter
        newtab == [id |-> tab_id, file_path |-> file_path, modified |-> FALSE,
                   temp_id |-> tab_id,
                   content |-> initial_text(tv, file_path, content, load_ok)]
        tv1 == [tv EXCEPT
                  !.tab_counter = tv.tab_counter + 1,
                  !.tab_buttons = (tab_id :> [is_active |-> FALSE, is_modified |-> FALSE])
                                  @@ tv.tab_buttons,
                  !.tabs = Append(tv.tabs, newtab),
                  !.temp = IF content # <<>> /\ file_path = NoPath
                           THEN save_to_temp(tv.temp, content, tab_id, temp_ok)
                           ELSE tv.temp]
    IN  do_select_tab(tv1, tab_id)

\* A mutant of save_file_as: the new path is returned although the write failed.
save_file_as_ignoring_fault(d, content, prompt, fault) ==
    IF prompt = NoPath THEN [path |-> NoPath, disk |-> d]
    ELSE [path |-> prompt, disk |-> write_file(d, prompt, content, fault)]

\* file_ops.save_file_as: the path it returns (NoPath for None) and the disk
\* it leaves.  prompt is what the save dialog returned.
save_file_as(d, content, prompt, fault) ==
    IF prompt = NoPath THEN [path |-> NoPath, disk |-> d]
    ELSE [path |-> IF fault = "ok" THEN prompt ELSE NoPath,
          disk |-> write_file(d, prompt, content, fault)]

\* TabView.save_tab_as
do_save_tab_as(tv, t, prompt, fault) ==
    IF ~HasTab(tv.tabs, t) THEN [tv |-> tv, ret |-> FALSE]
    ELSE LET tab == TabOf(tv.tabs, t)
             r == save_file_as(tv.disk, tab.content, prompt, fault)
             tv1 == [tv EXCEPT !.disk = r.disk]
         IN  IF r.path # NoPath
             THEN LET tv2 == [tv1 EXCEPT !.tabs = SetTab(tv.tabs, t,
                                            [tab EXCEPT !.file_path = r.path])]
                      tv3 == do_mark_tab_modified(tv2, t, FALSE)
                  IN  [tv |-> IF t = tv3.current_tab_id
                              THEN [tv3 EXCEPT !.current_file = r.path]
                              ELSE tv3,
                       ret |-> TRUE]
             ELSE [tv |-> tv1, ret |-> FALSE]

\* TabView.save_tab
do_save_tab(tv, t, prompt, fault) ==
    IF ~HasTab(tv.tabs, t) THEN [tv |-> tv, ret |-> FALSE]
    ELSE LET tab == TabOf(tv.tabs, t)
         IN  IF tab.file_path # NoPath
             THEN LET tv1 == [tv EXCEPT !.disk =
                                write_file(tv.disk, tab.file_path, tab.content, fault)]
                  IN  IF fault = "ok"
                      THEN [tv |-> do_mark_tab_modified(tv1, t, FALSE), ret |-> TRUE]
                      ELSE [tv |-> tv1, ret |-> FALSE]
             ELSE do_save_tab_as(tv, t, prompt, fault)

\* A mutant of next_tab_id: the last remaining tab instead of the first.
next_tab_id_last(ts) == Keys(ts)[Len(ts)]

\* close_tab's choice of the tab to select after the active tab was removed:
\* list(self.tabs.keys())[0]
next_tab_id(ts) == Keys(ts)[1]

\* A mutant of is_current: every close is treated as a close of the active tab.
is_current_always(tv, t) == TRUE

\* close_tab: is_current = (tab_id == self.current_tab_id)
is_current(tv, t) == t = tv.current_tab_id

\* A mutant of select_after_close: no blank tab is created when none remain.
select_after_close_no_refill(tv) ==
    IF tv.tabs # <<>>
    THEN do_select_tab(tv, next_tab_id(tv.tabs))
    ELSE [tv EXCEPT !.current_tab_id = NoTab, !.active_editor = NoTab,
                    !.current_file = NoPath]

\* A mutant of select_after_close: the remaining tabs are left unselected.
select_after_close_no_select(tv) ==
    IF tv.tabs # <<>>
    THEN tv
    ELSE do_create_tab([tv EXCEPT !.current_tab_id = NoTab, !.active_editor = NoTab,
                                  !.current_file = NoPath],
                       NoPath, <<>>, TRUE, TRUE)

\* close_tab after the active tab was removed: select the first remaining tab,
\* or clear the references and create a blank tab when none remain.
select_after_close(tv) ==
    IF tv.tabs # <<>>
    THEN do_select_tab(tv, next_tab_id(tv.tabs))
    ELSE do_create_tab([tv EXCEPT !.current_tab_id = NoTab, !.active_editor = NoTab,
                                  !.current_file = NoPath],
                       NoPath, <<>>, TRUE, TRUE)

\* A mutant of do_close_tab: the tab stays open when the save the user asked
\* for failed.
do_close_tab_unless_save_failed(tv, t, inp) ==
    IF ~HasTab(tv.tabs, t) THEN tv
    ELSE IF TabOf(tv.tabs, t).modified /\ inp.yes
            /\ ~do_save_tab(tv, t, inp.prompt, inp.fault).ret
         THEN do_save_tab(tv, t, inp.prompt, inp.fault).tv
         ELSE LET tv1 == IF TabOf(tv.tabs, t).modified /\ inp.yes
                         THEN do_save_tab(tv, t, inp.prompt, inp.fault).tv
                         ELSE tv
                  tv2 == [tv1 EXCEPT
                            !.tab_buttons = [b \in DOMAIN tv1.tab_buttons \ {t} |->
                                               tv1.tab_buttons[b]],
                            !.tabs = DelTab(tv1.tabs, t)]
              IN  IF is_current(tv1, t) THEN select_after_close(tv2) ELSE tv2

\* TabView.close_tab.  inp is what the user does during the call: the answer
\* to the "Save changes" prompt, the path picked in the save dialog and the
\* fate of the write.
do_close_tab(tv, t, inp) ==
    IF ~HasTab(tv.tabs, t) THEN tv
    ELSE LET tv1 == IF TabOf(tv.tabs, t).modified /\ inp.yes
                    THEN do_save_tab(tv, t, inp.prompt, inp.fault).tv
                    ELSE tv
             was_current == is_current(tv1, t)
             tv2 == [tv1 EXCEPT
                       !.tab_buttons = [b \in DOMAIN tv1.tab_buttons \ {t} |->
                                          tv1.tab_buttons[b]],
                       !.tabs = DelTab(tv1.tabs, t)]
         IN  IF was_current THEN select_after_close(tv2) ELSE tv2

\* for tab_id in list(self.tabs.keys()): if tab_id != keep: self.close_tab(tab_id)
RECURSIVE close_each(_, _, _, _)
close_each(tv, ids, keep, inps) ==
    IF ids = <<>> THEN tv
    ELSE close_each(IF Head(ids) # keep
                    THEN do_close_tab(tv, Head(ids), inps[Head(ids)])
                    ELSE tv,
                    Tail(ids), keep, inps)

\* A mutant of do_close_other_tabs: the active tab is the one kept.
do_close_other_tabs_keep_active(tv, keep, inps) ==
    close_each(tv, Keys(tv.tabs), tv.current_tab_id, inps)

\* TabView.close_other_tabs
do_close_other_tabs(tv, keep, inps) == close_each(tv, Keys(tv.tabs), keep, inps)

\* TabView.close_all_tabs
do_close_all_tabs(tv, inps) == close_each(tv, Keys(tv.tabs), NoTab, inps)

\* TabView.open_file
do_open_file(tv, file_path, load_ok) ==
    IF \E i \in 1 .. Len(tv.tabs) : tv.tabs[i].file_path = file_path
    THEN LET i == CHOOSE j \in 1 .. Len(tv.tabs) :
                    /\ tv.tabs[j].file_path = file_path
                    /\ \A k \in 1 .. (j - 1) : tv.tabs[k].file_path # file_path
         IN  [tv |-> do_select_tab(tv, tv.tabs[i].id), ret |-> tv.tabs[i].id]
    ELSE [tv |-> do_create_tab(tv, file_path, <<>>, load_ok, TRUE),
          ret |-> tv.tab_counter]


\* TabView.next_tab / prev_tab: the tab selected, step = 1 or -1.  sorted()
\* orders the "tab_<n>" keys as strings, which is numeric order while n < 10
\* (MaxCounter stays below 10).
SortedKeys(ts) ==
    LET S == KeySet(ts)
    IN  [i \in 1 .. Cardinality(S) |->
            CHOOSE k \in S : Cardinality({j \in S : j < k}) = i - 1]

do_step_tab(tv, step) ==
    IF tv.tabs = <<>> THEN tv
    ELSE LET tab_ids == SortedKeys(tv.tabs)
             n == Len(tab_ids)
         IN  IF tv.current_tab_id \notin KeySet(tv.tabs)
             THEN do_select_tab(tv, tab_ids[1])
             ELSE LET current_index ==
                          (CHOOSE i \in 1 .. n : tab_ids[i] = tv.current_tab_id) - 1
                  IN  do_select_tab(tv, tab_ids[((current_index + step) % n) + 1])

\* An edit of the text in the editor that has the focus (the active tab's).
\* notify says whether the editing handler ends in _on_text_changed, which
\* calls the tab's on_change callback, mark_tab_modified(tab_id).
do_edit(tv, text, notify) ==
    IF ~HasTab(tv.tabs, tv.current_tab_id) THEN tv
    ELSE LET t == tv.current_tab_id
             tv1 == [tv EXCEPT !.tabs = SetTab(tv.tabs, t,
                                   [TabOf(tv.tabs, t) EXCEPT !.content = text])]
         IN  IF notify THEN do_mark_tab_modified(tv1, t, TRUE) ELSE tv1

\* TabView._autosave_all_tabs: failed is the set of tabs whose snapshot write fails.
RECURSIVE snapshot_each(_, _, _)
snapshot_each(tmp, ts, failed) ==
    IF ts = <<>> THEN tmp
    ELSE snapshot_each(IF Head(ts).modified
                       THEN save_to_temp(tmp, Head(ts).content, Head(ts).temp_id,
                                         Head(ts).id \notin failed)
                       ELSE tmp,
                       Tail(ts), failed)

do_autosave_all_tabs(tv, failed) ==
    LET tv1 == [tv EXCEPT !.temp = snapshot_each(tv.temp, tv.tabs, failed)]
    IN  IF tv1.tabs = <<>> THEN do_create_tab(tv1, NoPath, <<>>, TRUE, TRUE) ELSE tv1

(***************************************************************************)
(* The TabView state machine.                                              *)
(***************************************************************************)
\* Spec, SpecFiles: no Compiler or Interpreter is in use.
RunIdle == [pc |-> "idle"]

\* Spec, SpecFiles, SpecRun: no project is in use.
NoProject == [project_path |-> NoPath]

\* What the user does while one close_tab runs: the answer to the "Save
\* changes" prompt, and, when the answer starts a save, the path picked in the
\* save dialog (shown for an untitled tab only) and the fate of the write (when
\* there is one).
NoInput == [yes |-> FALSE, prompt |-> NoPath, fault |-> "ok"]
SaveInputsFor(tab, faults) ==
    IF tab.file_path # NoPath
    THEN { [yes |-> TRUE, prompt |-> NoPath, fault |-> f] : f \in faults }
    ELSE { [yes |-> TRUE, prompt |-> NoPath, fault |-> "ok"] } \cup
         { [yes |-> TRUE, prompt |-> p, fault |-> f] : p \in Paths, f \in faults }
InputsFor(tab) ==
    IF tab.modified THEN {NoInput} \cup SaveInputsFor(tab, CloseFaults) ELSE {NoInput}

AllInputs == {NoInput} \cup [yes : {TRUE}, prompt : PathsOrNone, fault : Faults]

\* One input per open tab, for the handlers that close several tabs.
InputMaps(ts) ==
    { m \in [KeySet(ts) -> UNION {InputsFor(ts[i]) : i \in 1 .. Len(ts)}] :
        \A i \in 1 .. Len(ts) : m[ts[i].id] \in InputsFor(ts[i]) }

CommitTabs(tv, op, t, prompt, fault, ret) ==
    /\ tabs' = tv.tabs
    /\ tab_buttons' = tv.tab_buttons
    /\ tab_counter' = tv.tab_counter
    /\ current_tab_id' = tv.current_tab_id
    /\ active_editor' = tv.active_editor
    /\ current_file' = tv.current_file
    /\ disk' = tv.disk
    /\ temp' = tv.temp
    /\ last' = [op |-> op, prompt |-> prompt, fault |-> fault,
                ret |-> ret, was_current |-> (t = current_tab_id)]

Commit(tv, op, t, prompt, fault, ret) ==
    /\ CommitTabs(tv, op, t, prompt, fault, ret)
    /\ UNCHANGED <<run, proj>>

Bool(b) == IF b THEN "True" ELSE "False"

\* TabView.__init__: no tabs, then _setup_autosave creates the first tab.
TabInit(files) ==
    /\ \E d \in [Paths -> files] :
        LET tv0 == [tabs |-> <<>>, tab_buttons |-> <<>>, tab_counter |-> 0,
                    current_tab_id |-> NoTab, active_editor |-> NoTab,
                    current_file |-> NoPath, disk |-> d,
                    temp |-> [i \in TabIds |-> NoFile]]
            tv == do_autosave_all_tabs(tv0, {})
        IN  /\ tabs = tv.tabs
            /\ tab_buttons = tv.tab_buttons
            /\ tab_counter = tv.tab_counter
            /\ current_tab_id = tv.current_tab_id
            /\ active_editor = tv.active_editor
            /\ current_file = tv.current_file
            /\ disk = tv.disk
            /\ temp = tv.temp
    /\ last = [op |-> "__init__", prompt |-> NoPath, fault |-> "ok",
               ret |-> "None", was_current |-> FALSE]

\* The bounds of a specification: b.tabs tabs open, b.counter tabs ever created.
CanCreate(b) == tab_counter < b.counter /\ Len(tabs) < b.tabs

create_tab(b, file_path, content, load_ok, temp_ok) ==
    /\ CanCreate(b)
    /\ Commit(do_create_tab(TV, file_path, content, load_ok, temp_ok),
              "create_tab", tab_counter, NoPath, "ok", "id")

open_file(b, file_path, load_ok) ==
    /\ CanCreate(b)
    /\ LET r == do_open_file(TV, file_path, load_ok)
       IN  Commit(r.tv, "open_file", r.ret, NoPath, "ok", "id")

select_tab(t) ==
    /\ HasTab(tabs, t)
    /\ Commit(do_select_tab(TV, t), "select_tab", t, NoPath, "ok", "None")

\* The result of the save that close_tab runs when the tab is modified and the
\* user answers yes ("None" when no save runs).
close_save_result(tv, t, inp) ==
    IF TabOf(tv.tabs, t).modified /\ inp.yes
    THEN Bool(do_save_tab(tv, t, inp.prompt, inp.fault).ret)
    ELSE "None"

\* Closing the only tab creates the replacement, which must fit the bound.
close_tab(b, t, inp) ==
    /\ HasTab(tabs, t)
    /\ inp \in InputsFor(TabOf(tabs, t))
    /\ Len(tabs) > 1 \/ tab_counter < b.counter
    /\ Commit(do_close_tab(TV, t, inp), "close_tab", t, NoPath, "ok",
              close_save_result(TV, t, inp))

close_other_tabs(keep) ==
    /\ HasTab(tabs, keep)
    /\ \E inps \in InputMaps(tabs) :
          Commit(do_close_other_tabs(TV, keep, inps), "close_other_tabs", keep,
                 NoPath, "ok", "None")

close_all_tabs(b) ==
    /\ tab_counter < b.counter
    /\ \E inps \in InputMaps(tabs) :
          Commit(do_close_all_tabs(TV, inps), "close_all_tabs", NoTab,
                 NoPath, "ok", "None")

save_tab(t, inp) ==
    /\ HasTab(tabs, t)
    /\ inp \in SaveInputsFor(TabOf(tabs, t), Faults)
    /\ LET r == do_save_tab(TV, t, inp.prompt, inp.fault)
       IN  Commit(r.tv, "save_tab", t, inp.prompt, inp.fault, Bool(r.ret))

\* save_tab_as always shows the save dialog; no write is tried when it is cancelled.
save_tab_as(t, prompt, fault) ==
    /\ HasTab(tabs, t)
    /\ (prompt = NoPath) => (fault = "ok")
    /\ LET r == do_save_tab_as(TV, t, prompt, fault)
       IN  Commit(r.tv, "save_tab_as", t, prompt, fault, Bool(r.ret))

next_tab ==
    /\ tabs # <<>>
    /\ Commit(do_step_tab(TV, 1), "next_tab", NoTab, NoPath, "ok", "None")

prev_tab ==
    /\ tabs # <<>>
    /\ Commit(do_step_tab(TV, -1), "prev_tab", NoTab, NoPath, "ok", "None")

\* The texts a cut can leave: the text with a selection (possibly empty) removed.
Shorter(text) == { x \in Texts : Len(x) < Len(text) } \cup {<<>>}

\* <KeyRelease> in the editor that has the focus: _on_text_changed runs
\* whether or not the key changed the text.
key_release(text) ==
    /\ HasTab(tabs, current_tab_id)
    /\ Commit(do_edit(TV, text, TRUE), "key_release", current_tab_id, NoPath, "ok", "None")

\* Context menu Paste, Undo, Redo: the handler changes the text and calls
\* _on_text_changed itself.
paste(text) ==
    /\ HasTab(tabs, current_tab_id)
    /\ Commit(do_edit(TV, text, TRUE), "paste", current_tab_id, NoPath, "ok", "None")

\* Context menu Cut: deletes the selection and does not call _on_text_changed.
cut(text) ==
    /\ HasTab(tabs, current_tab_id)
    /\ text \in Shorter(TabOf(tabs, current_tab_id).content)
    /\ Commit(do_edit(TV, text, FALSE), "cut", current_tab_id, NoPath, "ok", "None")

\* SearchReplaceBar.replace_current / replace_all: editor.delete and
\* editor.insert, and no call of _on_text_changed.
replace(text) ==
    /\ HasTab(tabs, current_tab_id)
    /\ Commit(do_edit(TV, text, FALSE), "replace", current_tab_id, NoPath, "ok", "None")

\* The tabs whose snapshot write may fail in one autosave tick.
FailedSets(snaps) ==
    LET M == {tabs[i].id : i \in {j \in 1 .. Len(tabs) : tabs[j].modified}}
    IN  { F \in SUBSET M : (TRUE \notin snaps => F = M) /\ (FALSE \notin snaps => F = {}) }

\* The autosave timer fires: TabView._setup_autosave.
autosave(snaps) ==
    /\ tabs # <<>>
    /\ \E failed \in FailedSets(snaps) :
          Commit(do_autosave_all_tabs(TV, failed), "autosave", NoTab, NoPath, "ok", "None")

\* The handlers, with the inputs drawn from bounded sets: the bounds b on the
\* tabs, texts typed or passed from texts, the outcomes of reading a file from
\* loads and of writing a snapshot from snaps (TRUE: it succeeds).
TabNext(b, texts, loads, snaps) ==
    \/ \E p \in PathsOrNone, c \in texts, l \in loads, k \in snaps : create_tab(b, p, c, l, k)
    \/ \E p \in Paths, l \in loads : open_file(b, p, l)
    \/ \E t \in TabIds : select_tab(t)
    \/ \E t \in TabIds, inp \in AllInputs : close_tab(b, t, inp)
    \/ \E keep \in TabIds : close_other_tabs(keep)
    \/ close_all_tabs(b)
    \/ \E t \in TabIds, inp \in AllInputs : save_tab(t, inp)
    \/ \E t \in TabIds, p \in PathsOrNone, f \in Faults : save_tab_as(t, p, f)
    \/ next_tab
    \/ prev_tab
    \/ \E x \in texts : key_release(x)
    \/ \E x \in texts : paste(x)
    \/ \E x \in texts : cut(x)
    \/ \E x \in texts : replace(x)
    \/ autosave(snaps)

\* Spec: up to MaxTabs tabs.  Every text is empty, every file read succeeds
\* and the snapshot directory is not writable (save_to_temp swallows the
\* error), so that tabs differ in identity, order, path and modified flag only.
Bounds == [tabs |-> MaxTabs, counter |-> MaxCounter]

Init == TabInit({NoFile, File(<<>>)}) /\ run = RunIdle /\ proj = NoProject

Next == TabNext(Bounds, {<<>>}, {TRUE}, {FALSE})

Spec == Init /\ [][Next]_vars

\* SpecFiles: fewer tabs, with texts that differ and every outcome of a read
\* and of a snapshot write, for what is read and written.
FileBounds == [tabs |-> FileMaxTabs, counter |-> FileMaxCounter]

InitFiles ==
    /\ TabInit({NoFile, File(<<>>), File(<<"x">>), File(<<HighByte>>)})
    /\ run = RunIdle /\ proj = NoProject

NextFiles == TabNext(FileBounds, {<<>>, <<"x">>}, BOOLEAN, BOOLEAN)

SpecFiles == InitFiles /\ [][NextFiles]_vars

(***************************************************************************)
(* Compiler and Interpreter: construction (detection of the binary) and    *)
(* one call, step by step.  run is the record                              *)
(*   pc        where the caller's thread is                                *)
(*   platform  platform.system()                                          *)
(*   obj       "compiler" or "interpreter", the object under construction  *)
(*   path      compiler_path / tcc_path ("None" when none was detected)    *)
(*   cand      the candidate that _detect_compiler probes next             *)
(*   op        the method called                                           *)
(*   proc      the subprocess of the call: "none", "running", "exited"     *)
(*   rc        its exit code once exited                                   *)
(*   term      terminate() was called on it                                *)
(*   out, err  lines buffered in its stdout / stderr pipe                  *)
(*   elapsed   seconds since start_time was taken                          *)
(*   spawned   subprocesses the call has started                           *)
(*   stderr    the standard error text the call collected                  *)
(*   temp_file interpret_code's temp_program.c exists                      *)
(*   launched  what the Popen calls of compile_and_run came to: "ok" or    *)
(*             the exception caught ("None" before the launch)             *)
(*   process   the process handle compile_and_run returns with the result  *)
(*   result    what the call returned                                      *)
(*   raised    the exception that escaped to the caller                    *)
(*   site      the method it escaped from                                  *)
(***************************************************************************)
TIMEOUT == 10       \* if time.time() - start_time > 10
\* CompilationResult(success, message, executable_path, warnings, errors);
\* an InterpretationResult(success, output, errors) is the same record with
\* its output as the message.  warnings and errors are sequences of entries,
\* an entry being a sequence of lines.
NoResult == [success |-> FALSE, message |-> "", executable_path |-> "None",
             warnings |-> <<>>, errors |-> <<>>]
Result(success, message, exe, warnings, errors) ==
    [success |-> success, message |-> message, executable_path |-> exe,
     warnings |-> warnings, errors |-> errors]

\* An entry of one line, the line being one word.
Entry(word) == << << <<word>> >> >>

(***************************************************************************)
(* What a compiler prints.  A line is a sequence of words; a text is a     *)
(* sequence of lines.                                                      *)
(***************************************************************************)
MaxLines == 2       \* lines of compiler output

ErrorLine == <<"x.c:1:", "error:", "expected", ";">>
UpperErrorLine == <<"tcc:", "Error:", "x.c">>
WarningLine == <<"x.c:2:", "warning:", "unused">>
NoteLine == <<"x.c:3:", "note:", "declared", "here">>
\* #error "warning: stop": the diagnostic quotes the directive's text.
QuotingErrorLine == <<"x.c:4:", "error:", "#error", "warning:", "stop">>
\* A diagnostic of a compiler that reports in another language.
LocalizedErrorLine == <<"x.c:5:", "Fehler:", "erwartet">>
BlankLine == << >>

Lines == {ErrorLine, UpperErrorLine, WarningLine, NoteLine, QuotingErrorLine,
          LocalizedErrorLine, BlankLine}

Outputs == UNION {[1 .. n -> Lines] : n \in 0 .. MaxLines}

\* str.lower() on a word.
lower(word) == IF word = "Error:" THEN "error:" ELSE word

\* 'needle' in line.lower()
contains(line, needle) == \E i \in 1 .. Len(line) : lower(line[i]) = needle

\* entries[-1] += "\n" + line
append_to_last(entries, line) ==
    [entries EXCEPT ![Len(entries)] = Append(entries[Len(entries)], line)]

\* Compiler._parse_compiler_output: the loop over the lines, with the
\* warnings and errors collected so far.
RECURSIVE parse_lines(_, _, _)
parse_lines(lines, warnings, errors) ==
    IF lines = <<>> THEN [warnings |-> warnings, errors |-> errors]
    ELSE LET line == Head(lines)
             rest == Tail(lines)
         IN  IF line = BlankLine THEN parse_lines(rest, warnings, errors)
             ELSE IF contains(line, "warning:")
                  THEN parse_lines(rest, Append(warnings, <<line>>), errors)
             ELSE IF contains(line, "error:")
                  THEN parse_lines(rest, warnings, Append(errors, <<line>>))
             ELSE IF contains(line, "note:")
                  THEN IF errors # <<>>
                       THEN parse_lines(rest, warnings, append_to_last(errors, line))
                       ELSE IF warnings # <<>>
                            THEN parse_lines(rest, append_to_last(warnings, line), errors)
                            ELSE parse_lines(rest, warnings, errors)
             ELSE parse_lines(rest, warnings, errors)

\* Compiler._parse_compiler_output(output)
parse_compiler_output(output) == parse_lines(output, <<>>, <<>>)

Platforms == {"Linux", "Windows"}

\* compiler_commands of _detect_compiler
compiler_commands(platform) ==
    IF platform = "Windows"
    THEN <<"gcc", "clang", "tcc", "mingw32-gcc", "x86_64-w64-mingw32-gcc">>
    ELSE <<"gcc", "clang", "tcc">>

\* What subprocess.run([binary, "--version"], timeout=1) can do: return with
\* exit code 0 or nonzero, or raise FileNotFoundError (no such binary),
\* subprocess.TimeoutExpired (a SubprocessError), or another OSError such as
\* PermissionError (a file of that name that may not be executed).
ProbeOutcomes == {"rc0", "rc1", "FileNotFoundError", "TimeoutExpired", "PermissionError"}

\* except (subprocess.SubprocessError, FileNotFoundError)
caught_by_detect(outcome) == outcome \in {"FileNotFoundError", "TimeoutExpired"}

RunNew(platform) ==
    [pc |-> "new", platform |-> platform, obj |-> "none", path |-> "None",
     cand |-> 0, op |-> "none", proc |-> "none", rc |-> 0, term |-> FALSE,
     out |-> 0, err |-> 0, elapsed |-> 0, spawned |-> 0, stderr |-> <<>>,
     temp_file |-> FALSE, launched |-> "None", process |-> "None",
     result |-> NoResult, raised |-> "None", site |-> "None"]

\* An exception that no except clause of the method catches reaches the caller.
Raise(r, exception, site) == [r EXCEPT !.pc = "raised", !.raised = exception, !.site = site]

\* Compiler() / Interpreter(): __init__ starts with the detection.
construct(obj) ==
    /\ run.pc = "new"
    /\ run' = [run EXCEPT !.pc = "detect", !.obj = obj, !.cand = 1]
    /\ UNCHANGED <<tabVars, proj>>

\* Compiler._detect_compiler: one iteration of the loop over compiler_commands.
detect_compiler(outcome) ==
    /\ run.pc = "detect" /\ run.obj = "compiler"
    /\ LET cmds == compiler_commands(run.platform)
       IN  run' =
             IF run.cand > Len(cmds) THEN [run EXCEPT !.pc = "makedirs", !.path = "None"]
             ELSE IF outcome = "rc0"
                  THEN [run EXCEPT !.pc = "makedirs", !.path = cmds[run.cand]]
             ELSE IF outcome = "rc1" \/ caught_by_detect(outcome)
                  THEN [run EXCEPT !.cand = run.cand + 1]
             ELSE Raise(run, outcome, "_detect_compiler")
    /\ UNCHANGED <<tabVars, proj>>

\* Interpreter._detect_tcc: the probe of "tcc", then on Windows the common
\* installation paths (found: one of them exists).
detect_tcc(outcome, found) ==
    /\ run.pc = "detect" /\ run.obj = "interpreter"
    /\ run' =
         IF outcome = "rc0" THEN [run EXCEPT !.pc = "makedirs", !.path = "tcc"]
         ELSE IF outcome = "rc1" \/ caught_by_detect(outcome)
              THEN IF run.platform = "Windows" /\ found
                   THEN [run EXCEPT !.pc = "makedirs", !.path = "C:\\tcc\\tcc.exe"]
                   ELSE [run EXCEPT !.pc = "makedirs", !.path = "None"]
         ELSE Raise(run, outcome, "_detect_tcc")
    /\ UNCHANGED <<tabVars, proj>>

\* __init__ after the detection: os.makedirs(self.temp_dir, exist_ok=True)
\* when the directory does not exist, outside any try.
make_temp_dir(exists, ok) ==
    /\ run.pc = "makedirs"
    /\ run' = IF exists \/ ok THEN [run EXCEPT !.pc = "ready"]
                              ELSE Raise(run, "OSError", "__init__")
    /\ UNCHANGED <<tabVars, proj>>

\* return res.  Inside interpret_code the return is that of the inner
\* interpret_file, and interpret_code goes on to remove its temp file.
Return(r, res) ==
    IF r.op = "interpret_code" THEN [r EXCEPT !.pc = "remove_temp", !.result = res]
                               ELSE [r EXCEPT !.pc = "returned", !.result = res]

CompilerOps == {"compile", "compile_and_run", "analyze_code"}
InterpreterOps == {"interpret_file", "interpret_code"}
LoopOps == {"compile", "compile_and_run", "interpret_file", "interpret_code"}

\* The timeout result of the polling loop.
timeout_result(op) ==
    IF op \in CompilerOps
    THEN Result(FALSE, "Compilation timed out after 10 seconds", "None", <<>>,
                Entry("Compilation process timed out"))
    ELSE Result(FALSE, "Interpretation timed out after 10 seconds", "None", <<>>,
                Entry("Interpretation process timed out"))

\* A mutant of exit_result: the exit code is not looked at.
exit_result_ignoring_rc(op, rc, stderr) ==
    Result(TRUE, "Compilation successful", "output_path", <<>>, <<>>)

\* The result once the subprocess has exited with rc and its output was
\* collected; stderr is all it wrote to its standard error.
exit_result(op, rc, stderr) ==
    IF op \in CompilerOps
    THEN LET parsed == parse_compiler_output(stderr)
         IN  IF rc = 0
             THEN Result(TRUE, "Compilation successful", "output_path",
                         parsed.warnings, <<>>)
             ELSE Result(FALSE, "Compilation failed with errors", "None",
                         parsed.warnings, parsed.errors)
    ELSE IF rc = 0 THEN Result(TRUE, "stdout", "None", <<>>, <<>>)
                   ELSE Result(FALSE, "stderr", "None", <<>>,
                               IF \A i \in 1 .. Len(stderr) : stderr[i] = BlankLine
                               THEN Entry("Unknown error")
                               ELSE [i \in 1 .. Len(stderr) |-> <<stderr[i]>>])

\* except Exception as e around the spawn and the loop.
process_error_result(op) ==
    IF op \in CompilerOps
    THEN Result(FALSE, "Compilation process error: ", "None", <<>>, Entry("Process error: "))
    ELSE Result(FALSE, "Interpretation error: ", "None", <<>>, Entry("str(e)"))

\* A mutant of compile_checks: the source is looked for before the compiler.
compile_checks_source_first(r, source_exists, makedirs_ok, output_exists, remove_ok) ==
    IF ~source_exists
    THEN Return(r, Result(FALSE, "Source file not found: ", "None", <<>>,
                          Entry("Source file not found")))
    ELSE IF r.path = "None"
    THEN Return(r, Result(FALSE, "No C compiler detected. Please install GCC, Clang, or TCC.",
                          "None", <<>>, Entry("Compiler not found")))
    ELSE IF ~makedirs_ok
    THEN Raise(r, "OSError", "compile")
    ELSE IF output_exists /\ ~remove_ok
    THEN Return(r, Result(FALSE, "Could not remove previous executable: ", "None", <<>>,
                          Entry("Failed to remove old executable: ")))
    ELSE [r EXCEPT !.pc = "spawn"]

\* Compiler.compile up to the spawn (lines 123-163): the checks in order.
\* makedirs_ok: os.makedirs of the output directory, which is outside any try.
compile_checks(r, source_exists, makedirs_ok, output_exists, remove_ok) ==
    IF r.path = "None"
    THEN Return(r, Result(FALSE, "No C compiler detected. Please install GCC, Clang, or TCC.",
                          "None", <<>>, Entry("Compiler not found")))
    ELSE IF ~source_exists
    THEN Return(r, Result(FALSE, "Source file not found: ", "None", <<>>,
                          Entry("Source file not found")))
    ELSE IF ~makedirs_ok
    THEN Raise(r, "OSError", "compile")
    ELSE IF output_exists /\ ~remove_ok
    THEN Return(r, Result(FALSE, "Could not remove previous executable: ", "None", <<>>,
                          Entry("Failed to remove old executable: ")))
    ELSE [r EXCEPT !.pc = "spawn"]

\* Interpreter.interpret_file up to the spawn (lines 123-135).
interpret_checks(r, source_exists) ==
    IF r.path = "None"
    THEN Return(r, Result(FALSE, "TCC (Tiny C Compiler) is not available. Please install TCC for interpretation mode.",
                          "None", <<>>, Entry("Interpreter not found")))
    ELSE IF ~source_exists
    THEN Return(r, Result(FALSE, "Source file not found: ", "None", <<>>,
                          Entry("Source file not found")))
    ELSE [r EXCEPT !.pc = "spawn"]

\* compile(...) / compile_and_run(...) is called on a constructed Compiler.
call_compile(op, source_exists, makedirs_ok, output_exists, remove_ok) ==
    /\ run.pc = "ready" /\ run.obj = "compiler" /\ op \in {"compile", "compile_and_run"}
    /\ output_exists => makedirs_ok     \* the directory of an existing file exists
    /\ run' = compile_checks([run EXCEPT !.op = op], source_exists, makedirs_ok,
                             output_exists, remove_ok)
    /\ UNCHANGED <<tabVars, proj>>

\* interpret_file(...) is called on a constructed Interpreter.
call_interpret_file(source_exists) ==
    /\ run.pc = "ready" /\ run.obj = "interpreter"
    /\ run' = interpret_checks([run EXCEPT !.op = "interpret_file"], source_exists)
    /\ UNCHANGED <<tabVars, proj>>

\* The result of interpret_code's except Exception branch.
interpretation_error == Result(FALSE, "Interpretation error: ", "None", <<>>, Entry("str(e)"))

\* The cleanup of interpret_code's except branch: if os.path.exists(temp_file),
\* os.remove(temp_file) inside try / except: pass.  The file is left when it
\* cannot be removed.
cleanup_temp(exists, remove_ok) == exists /\ ~remove_ok

\* interpret_code(code): the temp file is written inside the try (fault: the
\* fate of open and write), then interpret_file(temp_file).  A failed write is
\* caught: the cleanup runs and the error result is returned.
call_interpret_code(fault, remove_ok) ==
    /\ run.pc = "ready" /\ run.obj = "interpreter"
    /\ LET r == [run EXCEPT !.op = "interpret_code"]
       IN  run' =
             IF fault = "ok"
             THEN interpret_checks([r EXCEPT !.temp_file = TRUE], TRUE)
             ELSE [r EXCEPT !.pc = "returned",
                            !.temp_file = cleanup_temp(fault = "write_fail", remove_ok),
                            !.result = interpretation_error]
    /\ UNCHANGED <<tabVars, proj>>

\* interpret_code after interpret_file returned: os.remove(temp_file), then
\* return result.  A failed removal is caught by except Exception, whose
\* cleanup tries the removal once more (again_ok).
remove_temp(ok, again_ok) ==
    /\ run.pc = "remove_temp"
    /\ run' = IF ok
              THEN [run EXCEPT !.pc = "returned", !.temp_file = FALSE]
              ELSE [run EXCEPT !.pc = "returned",
                               !.temp_file = cleanup_temp(run.temp_file, again_ok),
                               !.result = interpretation_error]
    /\ UNCHANGED <<tabVars, proj>>

\* Compiler.analyze_code: subprocess.run(cmd, timeout=5) inside try/except
\* Exception; every outcome is a list of findings.
call_analyze_code(source_exists, outcome) ==
    /\ run.pc = "ready" /\ run.obj = "compiler"
    /\ LET r == [run EXCEPT !.op = "analyze_code"]
       IN  run' =
             IF r.path = "None"
             THEN Return(r, Result(FALSE, "No compiler available for analysis", "None", <<>>, <<>>))
             ELSE IF ~source_exists
             THEN Return(r, Result(FALSE, "Source file not found", "None", <<>>, <<>>))
             ELSE IF outcome \in {"rc0", "rc1"}
             THEN Return([r EXCEPT !.spawned = 1, !.proc = "exited",
                                   !.rc = IF outcome = "rc0" THEN 0 ELSE 1],
                         Result(TRUE, "findings", "None", <<>>, <<>>))
             ELSE Return(r, Result(FALSE, "Analysis error: ", "None", <<>>, <<>>))
    /\ UNCHANGED <<tabVars, proj>>

\* subprocess.Popen(cmd, stdout=PIPE, stderr=PIPE, text=True), inside the try.
spawn(outcome) ==
    /\ run.pc = "spawn"
    /\ run' = IF outcome = "ok"
              THEN [run EXCEPT !.pc = "poll", !.proc = "running",
                               !.spawned = run.spawned + 1, !.elapsed = 0]
              ELSE Return(run, process_error_result(run.op))
    /\ UNCHANGED <<tabVars, proj>>

\* time.time() - start_time > 10
timed_out(elapsed) == elapsed > TIMEOUT

\* while process.poll() is None:
poll ==
    /\ run.pc = "poll"
    /\ run' = [run EXCEPT !.pc = IF run.proc = "exited" THEN "communicate"
                                                       ELSE "check_timeout"]
    /\ UNCHANGED <<tabVars, proj>>

\* if time.time() - start_time > 10: process.terminate(); return <timeout>
check_timeout ==
    /\ run.pc = "check_timeout"
    /\ run' = IF timed_out(run.elapsed)
              THEN Return([run EXCEPT !.term = TRUE], timeout_result(run.op))
              ELSE [run EXCEPT !.pc = "read_stdout"]
    /\ UNCHANGED <<tabVars, proj>>

\* A readline on a pipe returns when a line is buffered or at end of file
\* (the subprocess has exited), and blocks otherwise.
can_readline(buffered, proc) == buffered > 0 \/ proc = "exited"

\* stdout_data = process.stdout.readline()
read_stdout ==
    /\ run.pc = "read_stdout"
    /\ can_readline(run.out, run.proc)
    /\ run' = [run EXCEPT !.pc = "read_stderr",
                          !.out = IF run.out > 0 THEN run.out - 1 ELSE 0]
    /\ UNCHANGED <<tabVars, proj>>

\* stderr_data = process.stderr.readline()
read_stderr ==
    /\ run.pc = "read_stderr"
    /\ can_readline(run.err, run.proc)
    /\ run' = [run EXCEPT !.pc = "sleep",
                          !.err = IF run.err > 0 THEN run.err - 1 ELSE 0]
    /\ UNCHANGED <<tabVars, proj>>

\* time.sleep(0.1)
sleep ==
    /\ run.pc = "sleep"
    /\ run' = [run EXCEPT !.pc = "poll"]
    /\ UNCHANGED <<tabVars, proj>>

\* process.communicate() after the loop, then the result by the exit code.
\* stderr is all that the subprocess wrote to its standard error.
\* compile_and_run goes on to launch the executable of a successful compile.
communicate(stderr) ==
    /\ run.pc = "communicate"
    /\ run.proc = "exited"
    /\ LET res == exit_result(run.op, run.rc, stderr)
           r == [run EXCEPT !.out = 0, !.err = 0, !.stderr = stderr]
       IN  run' = IF run.op = "compile_and_run" /\ res.success
                  THEN [r EXCEPT !.pc = "launch", !.result = res]
                  ELSE Return(r, res)
    /\ UNCHANGED <<tabVars, proj>>

\* What a Popen of compile_and_run can do: start the process, or raise
\* FileNotFoundError or another OSError.
LaunchOutcomes == {"ok", "FileNotFoundError", "PermissionError"}

\* terminal_commands of compile_and_run
terminal_commands == <<"x-terminal-emulator", "gnome-terminal", "konsole", "xterm">>

\* for term_cmd in terminal_commands: try: Popen(...); break
\* except (subprocess.SubprocessError, FileNotFoundError): continue
\* else: Popen([executable]).  terms[i] is the fate of the i-th terminal's
\* Popen, direct that of the direct one; the value is "ok" when a process was
\* started and the exception that leaves the loop otherwise.
RECURSIVE try_terminals(_, _, _)
try_terminals(i, terms, direct) ==
    IF i > Len(terminal_commands) THEN direct
    ELSE IF terms[i] = "FileNotFoundError" THEN try_terminals(i + 1, terms, direct)
    ELSE terms[i]

\* The Popen calls of compile_and_run by platform.
launch_outcome(platform, terms, direct) ==
    IF platform = "Windows" THEN direct ELSE try_terminals(1, terms, direct)

\* A mutant of launch_failed_result: the result of the compile is left as it is.
launch_failed_result_untouched(result) == result

\* except Exception as e: result.success = False; result.message = ...
launch_failed_result(result) ==
    [result EXCEPT !.success = FALSE, !.message = "Failed to run executable: "]

\* compile_and_run after a successful compile: the Popen of the executable (in
\* a terminal or directly) inside try / except Exception, and the return of
\* (result, process).
launch(terms, direct) ==
    /\ run.pc = "launch"
    /\ LET e == launch_outcome(run.platform, terms, direct)
       IN  run' = IF e = "ok"
                  THEN [run EXCEPT !.pc = "returned", !.spawned = run.spawned + 1,
                                   !.launched = e, !.process = "Popen"]
                  ELSE [run EXCEPT !.pc = "returned", !.launched = e, !.process = "None",
                                   !.result = launch_failed_result(run.result)]
    /\ UNCHANGED <<tabVars, proj>>

\* The call's thread takes its next step.
Worker ==
    \/ poll \/ check_timeout \/ read_stdout \/ read_stderr \/ sleep
    \/ \E stderr \in Outputs : communicate(stderr)
    \/ \E ok \in BOOLEAN, again \in BOOLEAN : remove_temp(ok, again)

(***************************************************************************)
(* The subprocess and the clock: the environment of the call.              *)
(***************************************************************************)
InLoop == run.pc \in {"poll", "check_timeout", "read_stdout", "read_stderr", "sleep"}

\* The subprocess writes a line to its stdout; it cannot when the pipe is full.
proc_write_out ==
    /\ run.proc = "running" /\ InLoop /\ run.out < PipeCap
    /\ run' = [run EXCEPT !.out = run.out + 1]
    /\ UNCHANGED <<tabVars, proj>>

\* The subprocess writes a line to its stderr; it cannot when the pipe is full.
proc_write_err ==
    /\ run.proc = "running" /\ InLoop /\ run.err < PipeCap
    /\ run' = [run EXCEPT !.err = run.err + 1]
    /\ UNCHANGED <<tabVars, proj>>

\* The subprocess exits by itself.
proc_exit(rc) ==
    /\ run.proc = "running" /\ ~run.term
    /\ run' = [run EXCEPT !.proc = "exited", !.rc = rc]
    /\ UNCHANGED <<tabVars, proj>>

\* The subprocess dies of the SIGTERM that terminate() sent.  Nothing forces
\* it to: the signal is delivered asynchronously and may be handled or ignored.
proc_terminated ==
    /\ run.proc = "running" /\ run.term
    /\ run' = [run EXCEPT !.proc = "exited", !.rc = -15]
    /\ UNCHANGED <<tabVars, proj>>

\* One second passes while the call is in its loop.
tick ==
    /\ InLoop /\ run.elapsed < MaxClock
    /\ run' = [run EXCEPT !.elapsed = run.elapsed + 1]
    /\ UNCHANGED <<tabVars, proj>>

InitRun ==
    /\ TabInit({NoFile})
    /\ proj = NoProject
    /\ \E pf \in Platforms : run = RunNew(pf)

NextRun ==
    \/ \E obj \in {"compiler", "interpreter"} : construct(obj)
    \/ \E o \in ProbeOutcomes : detect_compiler(o)
    \/ \E o \in ProbeOutcomes, found \in BOOLEAN : detect_tcc(o, found)
    \/ \E exists \in BOOLEAN, ok \in BOOLEAN : make_temp_dir(exists, ok)
    \/ \E op \in {"compile", "compile_and_run"}, s \in BOOLEAN, m \in BOOLEAN,
          e \in BOOLEAN, rm \in BOOLEAN : call_compile(op, s, m, e, rm)
    \/ \E s \in BOOLEAN : call_interpret_file(s)
    \/ \E f \in Faults, rm \in BOOLEAN : call_interpret_code(f, rm)
    \/ \E ok \in BOOLEAN, again \in BOOLEAN : remove_temp(ok, again)
    \/ \E s \in BOOLEAN, o \in ProbeOutcomes : call_analyze_code(s, o)
    \/ \E o \in {"ok", "OSError"} : spawn(o)
    \/ poll
    \/ check_timeout
    \/ read_stdout
    \/ read_stderr
    \/ sleep
    \/ \E stderr \in Outputs : communicate(stderr)
    \/ \E terms \in [1 .. Len(terminal_commands) -> LaunchOutcomes],
          direct \in LaunchOutcomes : launch(terms, direct)
    \/ proc_write_out
    \/ proc_write_err
    \/ \E rc \in {0, 1} : proc_exit(rc)
    \/ proc_terminated
    \/ tick

SpecRun == InitRun /\ [][NextRun]_vars

\* The thread that runs the call is scheduled as long as it can take a step,
\* and time passes; nothing is assumed of the subprocess.
FairSpecRun == SpecRun /\ WF_vars(Worker) /\ WF_vars(tick)

(***************************************************************************)
(* Compiler._parse_compiler_output on its own (SpecParse): the text is     *)
(* drawn at the start and one step parses it.                              *)
(***************************************************************************)
ParseMaxLines == 3    \* SpecParse: lines of compiler output

\* A line that belongs to a diagnostic and holds none of the three markers.
ContextLine == <<"x.c:", "In", "function", "main">>

ParseOutputs == UNION {[1 .. n -> Lines \cup {ContextLine}] : n \in 0 .. ParseMaxLines}

ParseNew(output) == [pc |-> "output", output |-> output, warnings |-> <<>>, errors |-> <<>>]

parse_output ==
    /\ run.pc = "output"
    /\ LET parsed == parse_compiler_output(run.output)
       IN  run' = [run EXCEPT !.pc = "parsed", !.warnings = parsed.warnings,
                              !.errors = parsed.errors]
    /\ UNCHANGED <<tabVars, proj>>

InitParse ==
    /\ TabInit({NoFile})
    /\ proj = NoProject
    /\ \E output \in ParseOutputs : run = ParseNew(output)

NextParse == parse_output

SpecParse == InitParse /\ [][NextParse]_vars

(***************************************************************************)
(* The Runner of chix/core/runner.py (SpecRunner): the UI thread, which    *)
(* executes run_code(state, mode) once per run, and the worker thread each *)
(* run starts.  A run has its own Runner; the output pane and the          *)
(* interpreter's temp directory are shared.                                *)
(***************************************************************************)
MaxRuns == 2          \* SpecRunner: runs triggered

RunIds == 1 .. MaxRuns
Modes == {"compiler", "interpreter"}

\* A mutant of temp_file_name: one name per invocation.
temp_file_name_unique(r) == IF r = 1 THEN "temp_program_1.c" ELSE "temp_program_2.c"

\* interpret_code: os.path.join(self.temp_dir, "temp_program.c"), in the
\* directory <tmp>/chix_interpreter that every Interpreter uses.
temp_file_name(r) == "temp_program.c"

TempNames == {"temp_program.c", "temp_program_1.c", "temp_program_2.c"}

\* The code of run r: the text the editor holds when the run is triggered.
code_of(r) == IF r = 1 THEN "code_1" ELSE "code_2"

\* One run: ui is the position of the UI thread in run_code(state, mode),
\* worker that of the thread the run started; current_process is the
\* Runner's handle ("None" or "process") and process the state of the program
\* that compile_and_run launched; interpreted is what tcc was given ("missing"
\* when the file was not there), result what the call returned.
NewRun ==
    [ui |-> "new", mode |-> "compiler", compiler |-> FALSE, tcc |-> FALSE,
     worker |-> "none", current_process |-> "None", process |-> "None",
     interpreted |-> "None", result |-> "None"]

RunnerNew ==
    [pc |-> "runner",
     runs |-> [r \in RunIds |-> NewRun],
     pane |-> <<>>,                                  \* state["output"]: run and text of each line
     cleared_by |-> 0,                               \* the run whose run_code cleared the pane last
     temp_dir |-> [n \in TempNames |-> "missing"],  \* <tmp>/chix_interpreter
     last_written |-> "missing",                     \* what the last write or remove of any run left
     invocations |-> {},                             \* the subprocesses run, and on which thread
     stop |-> [calls |-> 0, runner |-> 0, ret |-> "None", raised |-> FALSE]]  \* the last stop_execution

\* output.insert("end", text) by run r
insert(pane, r, text) == Append(pane, [run |-> r, text |-> text])

\* A subprocess runs on a thread.
invoke(invocations, what, thread) == invocations \cup {[what |-> what, thread |-> thread]}

\* The UI thread executes one run_code at a time, in the order of the runs.
ui_free(r) ==
    /\ \A q \in RunIds : q < r => run.runs[q].ui = "done"
    /\ \A q \in RunIds : q > r => run.runs[q].ui = "new"

\* run_code(state, mode): runner = Runner(state).  Compiler() and Interpreter()
\* probe for the tools with subprocess.run, on the calling thread.
Runner_init(r, compiler_found, tcc_found) ==
    /\ run.pc = "runner" /\ ui_free(r)
    /\ run.runs[r].ui = "new"
    /\ run' = [run EXCEPT
                !.runs[r].ui = "constructed",
                !.runs[r].compiler = compiler_found,
                !.runs[r].tcc = tcc_found,
                !.invocations = invoke(invoke(run.invocations, "detect_compiler", "ui"),
                                       "detect_tcc", "ui")]
    /\ UNCHANGED <<tabVars, proj>>

\* Runner.run_code up to the choice of the mode: the pane is cleared.
run_code(r, mode) ==
    /\ run.pc = "runner" /\ ui_free(r)
    /\ run.runs[r].ui = "constructed"
    /\ run' = [run EXCEPT !.runs[r].ui = "cleared", !.runs[r].mode = mode,
                          !.pane = <<>>, !.cleared_by = r]
    /\ UNCHANGED <<tabVars, proj>>

\* A mutant of start_thread: the workers of the older runs are cancelled.
start_thread_cancelling(runs, r) ==
    [q \in RunIds |->
        IF q = r THEN [runs[q] EXCEPT !.ui = "done", !.worker = "announce"]
        ELSE IF runs[q].worker \notin {"none", "done"}
             THEN [runs[q] EXCEPT !.worker = "done"]
             ELSE runs[q]]

\* self.run_thread = threading.Thread(target=...); daemon; start(); return True
start_thread(runs, r) ==
    [runs EXCEPT ![r].ui = "done", ![r].worker = "announce"]

\* Runner._run_compiler / _run_interpreter on the UI thread: the tool is
\* looked up, its version is queried with subprocess.run, and the worker is
\* started.
run_dispatch(r, source_exists) ==
    /\ run.pc = "runner" /\ ui_free(r)
    /\ run.runs[r].ui = "cleared"
    /\ LET this == run.runs[r]
           available == IF this.mode = "interpreter" THEN this.tcc ELSE this.compiler
       IN  IF ~available
           THEN run' = [run EXCEPT
                          !.runs[r].ui = "done",
                          !.pane = insert(insert(run.pane, r, "[ERROR] not available"),
                                          r, "Please install")]
           ELSE IF this.mode = "compiler" /\ ~source_exists
           THEN run' = [run EXCEPT
                          !.runs[r].ui = "done",
                          !.invocations = invoke(run.invocations, "version", "ui"),
                          !.pane = insert(insert(run.pane, r, "[INFO] Using"),
                                          r, "[ERROR] Source file not found")]
           ELSE run' = [run EXCEPT
                          !.runs = start_thread(run.runs, r),
                          !.invocations = invoke(run.invocations, "version", "ui"),
                          !.pane = insert(run.pane, r, "[INFO] Using")]
    /\ UNCHANGED <<tabVars, proj>>

\* The worker of run r starts: output.insert("end", "[INFO] Compiling ...") or
\* "[INFO] Interpreting ...".
announce(r) ==
    /\ run.pc = "runner"
    /\ run.runs[r].worker = "announce"
    /\ run' = [run EXCEPT
                !.runs[r].worker = IF run.runs[r].mode = "interpreter" THEN "write" ELSE "call",
                !.pane = insert(run.pane, r, "[INFO] Starting")]
    /\ UNCHANGED <<tabVars, proj>>

\* compile_thread: result, process = self.compiler.compile_and_run(file_path);
\* self.current_process = process.  success is the fate of the compilation,
\* launched that of starting the program.
compile_thread_call(r, success, launched) ==
    /\ run.pc = "runner"
    /\ run.runs[r].worker = "call"
    /\ run' = [run EXCEPT
                !.runs[r].worker = "head",
                !.runs[r].result = IF success /\ launched THEN "success" ELSE "failed",
                !.runs[r].current_process = IF success /\ launched THEN "process" ELSE "None",
                !.runs[r].process = IF success /\ launched THEN "running" ELSE "None",
                !.invocations = invoke(run.invocations, "compile", "worker")]
    /\ UNCHANGED <<tabVars, proj>>

\* interpret_code: with open(temp_file, "w") as f: f.write(code)
write_source(r) ==
    /\ run.pc = "runner"
    /\ run.runs[r].worker = "write"
    /\ run' = [run EXCEPT
                !.runs[r].worker = "run",
                !.temp_dir[temp_file_name(r)] = code_of(r),
                !.last_written = code_of(r)]
    /\ UNCHANGED <<tabVars, proj>>

\* interpret_code: result = self.interpret_file(temp_file, args).  A missing
\* file gives the "Source file not found" result and no subprocess; else tcc
\* runs what the file holds, and ok is the fate of that program.
interpret_source(r, ok) ==
    /\ run.pc = "runner"
    /\ run.runs[r].worker = "run"
    /\ LET source == run.temp_dir[temp_file_name(r)]
       IN  run' = [run EXCEPT
                    !.runs[r].worker = "remove",
                    !.runs[r].interpreted = source,
                    !.runs[r].result = IF source = "missing" THEN "Source file not found"
                                       ELSE IF ok THEN "success" ELSE "failed",
                    !.invocations = IF source = "missing" THEN run.invocations
                                    ELSE invoke(run.invocations, "interpret", "worker")]
    /\ UNCHANGED <<tabVars, proj>>

\* interpret_code: os.remove(temp_file); return result.  When the file is not
\* there os.remove raises, and except Exception returns an error result.
remove_source(r) ==
    /\ run.pc = "runner"
    /\ run.runs[r].worker = "remove"
    /\ LET name == temp_file_name(r)
       IN  run' = IF run.temp_dir[name] # "missing"
                  THEN [run EXCEPT !.runs[r].worker = "head",
                                   !.temp_dir[name] = "missing",
                                   !.last_written = "missing"]
                  ELSE [run EXCEPT !.runs[r].worker = "head",
                                   !.runs[r].result = "Interpretation error"]
    /\ UNCHANGED <<tabVars, proj>>

\* The worker displays the result: the line that tells success from failure,
\* then the output, the warnings or the errors.
report(r) ==
    /\ run.pc = "runner"
    /\ run.runs[r].worker \in {"head", "detail"}
    /\ run' = IF run.runs[r].worker = "head"
              THEN [run EXCEPT
                      !.runs[r].worker = "detail",
                      !.pane = insert(run.pane, r,
                                      IF run.runs[r].result = "success"
                                      THEN "[SUCCESS]" ELSE "[ERROR]")]
              ELSE [run EXCEPT
                      !.runs[r].worker = "done",
                      !.pane = insert(run.pane, r, run.runs[r].result)]
    /\ UNCHANGED <<tabVars, proj>>

\* The program that compile_and_run launched ends by itself.
process_exits(r) ==
    /\ run.pc = "runner"
    /\ run.runs[r].process = "running"
    /\ run' = [run EXCEPT !.runs[r].process = "exited"]
    /\ UNCHANGED <<tabVars, proj>>

\* A mutant of do_stop_execution: the handle is not cleared.
do_stop_execution_keeping_handle(this, terminate_ok) ==
    IF this.current_process # "None" /\ terminate_ok
    THEN [this |-> [this EXCEPT !.process = IF this.process = "running"
                                            THEN "terminated" ELSE this.process],
          ret |-> "True"]
    ELSE [this |-> this, ret |-> "False"]

\* Runner.stop_execution: the Runner afterwards and the value returned.
\* terminate_ok is the fate of self.current_process.terminate().
do_stop_execution(this, terminate_ok) ==
    IF this.current_process # "None" /\ terminate_ok
    THEN [this |-> [this EXCEPT !.process = IF this.process = "running"
                                            THEN "terminated" ELSE this.process,
                                !.current_process = "None"],
          ret |-> "True"]
    ELSE [this |-> this, ret |-> "False"]

MaxStops == 3         \* SpecRunner: calls of stop_execution

stop_execution(r, terminate_ok) ==
    /\ run.pc = "runner"
    /\ run.runs[r].ui # "new"
    /\ run.stop.calls < MaxStops
    /\ LET s == do_stop_execution(run.runs[r], terminate_ok)
       IN  run' = [run EXCEPT !.runs[r] = s.this,
                              !.stop = [calls |-> run.stop.calls + 1, runner |-> r,
                                        ret |-> s.ret,
                                        raised |-> run.runs[r].current_process # "None"
                                                   /\ ~terminate_ok]]
    /\ UNCHANGED <<tabVars, proj>>

InitRunner ==
    /\ TabInit({NoFile})
    /\ proj = NoProject
    /\ run = RunnerNew

NextRunner ==
    \/ \E r \in RunIds, compiler_found \in BOOLEAN, tcc_found \in BOOLEAN :
            Runner_init(r, compiler_found, tcc_found)
    \/ \E r \in RunIds, mode \in Modes : run_code(r, mode)
    \/ \E r \in RunIds, source_exists \in BOOLEAN : run_dispatch(r, source_exists)
    \/ \E r \in RunIds : announce(r)
    \/ \E r \in RunIds, success \in BOOLEAN, launched \in BOOLEAN :
            compile_thread_call(r, success, launched)
    \/ \E r \in RunIds : write_source(r)
    \/ \E r \in RunIds, ok \in BOOLEAN : interpret_source(r, ok)
    \/ \E r \in RunIds : remove_source(r)
    \/ \E r \in RunIds : report(r)
    \/ \E r \in RunIds : process_exits(r)
    \/ \E r \in RunIds, terminate_ok \in BOOLEAN : stop_execution(r, terminate_ok)

SpecRunner == InitRunner /\ [][NextRunner]_vars

(***************************************************************************)
(* The ProjectManager of chix/core/project.py (SpecProject): one project   *)
(* directory, its .chix/project.json sidecar file, and the settings of the *)
(* shared state.                                                           *)
(***************************************************************************)
ProjectDir == "d"     \* the path given to open_project and create_project

\* The settings the shared state is built with.
DefaultSettings ==
    [theme_mode |-> "dark", show_minimap |-> TRUE, tab_size |-> 4, word_wrap |-> FALSE]

\* Python values: a dict is a function over its keys; a list that is not a
\* dict is told apart by its type.
EmptyDict == [k \in {} |-> 0]
Dict(items) == [type |-> "dict", items |-> items]
List == [type |-> "list", items |-> EmptyDict]

\* json.dump: the text written, value by value.
Digits == <<"0", "1", "2", "3", "4", "5", "6", "7", "8", "9">>
json_string(s) == <<"\"", s, "\"">>
json_int(n) == Digits[n + 1]
json_bool(b) == IF b THEN "true" ELSE "false"
json_setting(key, value) ==
    CASE key = "theme_mode" -> json_string(value)
      [] key = "tab_size" -> json_int(value)
      [] OTHER -> json_bool(value)

json_dump(obj) ==
    IF obj.type = "list" THEN [type |-> "array", items |-> EmptyDict]
    ELSE [type |-> "object",
          items |-> [k \in DOMAIN obj.items |->
                CASE k = "settings" ->
                        [s \in DOMAIN obj.items[k] |-> json_setting(s, obj.items[k][s])]
                  [] k = "recent_files" ->
                        [i \in 1 .. Len(obj.items[k]) |-> json_string(obj.items[k][i])]
                  [] OTHER -> json_string(obj.items[k])]]

\* A file that open(..., "w") emptied and json.dump did not finish.
Truncated == [type |-> "truncated", items |-> EmptyDict]

\* json.load of a text that parses.
parse_string(token) == token[2]
parse_int(token) == CHOOSE n \in 0 .. 9 : Digits[n + 1] = token
parse_bool(token) == token = "true"
parse_setting(key, token) ==
    CASE key = "theme_mode" -> parse_string(token)
      [] key = "tab_size" -> parse_int(token)
      [] OTHER -> parse_bool(token)

json_load(text) ==
    IF text.type = "array" THEN List
    ELSE Dict([k \in DOMAIN text.items |->
                CASE k = "settings" ->
                        [s \in DOMAIN text.items[k] |-> parse_setting(s, text.items[k][s])]
                  [] k = "recent_files" ->
                        [i \in 1 .. Len(text.items[k]) |-> parse_string(text.items[k][i])]
                  [] OTHER -> parse_string(text.items[k])])

\* ProjectManager.__init__, with the shared state of the application and the
\* project directory as it is found: dir is what the path is ("absent",
\* "file", "empty" or "nonempty" directory), chix whether the .chix directory
\* exists, config the file .chix/project.json, scaffold what create_project
\* has made.  saved, created and loaded record what the handlers did: the
\* settings save_editor_state last wrote (valid while no read or write of the
\* config failed since, changed once the state differed from them), whether
\* an open_project found no config and wrote one, and whether the last
\* open_project loaded the config.
ProjNew(dir, chix, config) ==
    [project_path |-> NoPath, project_config |-> Dict(EmptyDict),
     state |-> DefaultSettings,
     current_directory |-> "cwd", current_project |-> NoPath,
     dir |-> dir, chix |-> chix, config |-> config, scaffold |-> "none",
     saved |-> [valid |-> FALSE, changed |-> FALSE, settings |-> DefaultSettings],
     created |-> FALSE, loaded |-> FALSE,
     op |-> "__init__", ret |-> "None", raised |-> "None"]

call(p, op) == [p EXCEPT !.op = op, !.ret = "None", !.raised = "None", !.loaded = FALSE]
raise(p, exception) == [p EXCEPT !.raised = exception, !.ret = "None"]
return(p, value) == [p EXCEPT !.ret = value]

\* with open(config_path, "w") as f: json.dump(self.project_config, f): the
\* file afterwards.  open_fail leaves the file as it was, write_fail leaves
\* the emptied file.
write_config(p, fault) ==
    CASE fault = "ok" -> File(json_dump(p.project_config))
      [] fault = "open_fail" -> p.config
      [] OTHER -> File(Truncated)

\* The dict _create_project_config builds.
new_config(state) ==
    Dict([name |-> ProjectDir, created |-> "now",
          settings |-> [theme_mode |-> state.theme_mode,
                        tab_size |-> state.tab_size,
                        word_wrap |-> state.word_wrap],
          recent_files |-> <<>>])

\* ProjectManager._create_project_config; mk_ok is the fate of os.makedirs
\* when .chix has to be made, and that call is in no try block.
create_project_config(p, mk_ok, fault) ==
    IF p.project_path = NoPath THEN p
    ELSE IF ~p.chix /\ ~mk_ok THEN raise(p, "OSError")
    ELSE LET q == [p EXCEPT !.chix = TRUE, !.dir = "nonempty",
                            !.project_config = new_config(p.state)]
         IN  [q EXCEPT !.config = write_config(q, fault),
                       !.saved.valid = p.saved.valid /\ fault = "ok"]

\* The settings save_editor_state stores.
editor_settings_without_minimap(state) ==
    [theme_mode |-> state.theme_mode, tab_size |-> state.tab_size,
     word_wrap |-> state.word_wrap]

editor_settings(state) ==
    [theme_mode |-> state.theme_mode, tab_size |-> state.tab_size,
     word_wrap |-> state.word_wrap, show_minimap |-> state.show_minimap]

\* os.path.relpath(file_path, project_path) and os.path.join(project_path,
\* recent_file): the paths of Paths are written relative to ProjectDir.
relpath(file_path) == file_path
full_path(recent_file) == recent_file

\* The paths save_editor_state collects from the tabs, in tab order.
RECURSIVE recent_files(_)
recent_files(ts) ==
    IF ts = <<>> THEN <<>>
    ELSE (IF Head(ts).file_path # NoPath THEN <<relpath(Head(ts).file_path)>> ELSE <<>>)
            \o recent_files(Tail(ts))

\* ProjectManager.save_editor_state
do_save_editor_state(p0, ts, fault) ==
    LET p == call(p0, "save_editor_state")
    IN  IF p.project_path = NoPath THEN p
        ELSE IF p.project_config.type # "dict" THEN raise(p, "TypeError")
        ELSE LET rf == recent_files(ts)
                 items == p.project_config.items
                 keys == (DOMAIN items \cup {"settings"})
                            \cup (IF rf # <<>> THEN {"recent_files"} ELSE {})
                 q == [p EXCEPT !.project_config =
                        Dict([k \in keys |->
                            CASE k = "settings" -> editor_settings(p.state)
                              [] k = "recent_files" /\ rf # <<>> -> rf
                              [] OTHER -> items[k]])]
             IN  [q EXCEPT !.config = write_config(q, fault),
                           !.saved = [valid |-> fault = "ok", changed |-> FALSE,
                                      settings |-> p.state]]

\* for key, value in self.project_config["settings"].items(): state[key] = value
apply_settings(state, cfg) ==
    IF cfg.type = "dict" /\ "settings" \in DOMAIN cfg.items
    THEN LET settings == cfg.items.settings
         IN  [k \in DOMAIN state \cup DOMAIN settings |->
                IF k \in DOMAIN settings THEN settings[k] ELSE state[k]]
    ELSE state

\* ProjectManager.open_project(ProjectDir): the manager and the tab view
\* afterwards.  load_ok is the fate of reading the config, mk_ok and fault
\* those of _create_project_config, tab_load_ok that of reading the recent
\* file into its tab.
do_open_project(p0, tv, load_ok, mk_ok, fault, tab_load_ok) ==
    LET p == call(p0, "open_project")
    IN  IF p.dir \notin {"empty", "nonempty"} THEN [p |-> return(p, "False"), tv |-> tv]
        ELSE LET p1 == [p EXCEPT !.project_path = ProjectDir,
                                 !.current_directory = ProjectDir,
                                 !.current_project = ProjectDir]
             IN  IF p1.config.exists /\ load_ok /\ p1.config.content.type # "truncated"
                 THEN LET cfg == json_load(p1.config.content)
                          p2 == [p1 EXCEPT !.project_config = cfg,
                                           !.state = apply_settings(p1.state, cfg),
                                           !.loaded = TRUE]
                          rf == IF cfg.type = "dict" /\ "recent_files" \in DOMAIN cfg.items
                                THEN cfg.items.recent_files ELSE <<>>
                      IN  [p |-> return(p2, "True"),
                           tv |-> IF rf # <<>> /\ tv.disk[full_path(rf[1])].exists
                                  THEN do_open_file(tv, full_path(rf[1]), tab_load_ok).tv
                                  ELSE tv]
                 ELSE LET p2 == [p1 EXCEPT !.saved.valid =
                                        p1.saved.valid /\ ~p1.config.exists]
                          p3 == create_project_config(p2, mk_ok, fault)
                      IN  [p |-> IF p3.raised # "None" THEN p3
                                 ELSE return([p3 EXCEPT !.created =
                                                ~p1.config.exists /\ fault = "ok"], "True"),
                           tv |-> tv]

\* ProjectManager.create_project(ProjectDir, template): mk_ok is the fate of
\* os.makedirs(project_path), chix_ok that of making .chix, fault that of
\* writing the config, files_ok that of making src, include and the files.
do_create_project(p0, template, mk_ok, chix_ok, fault, files_ok) ==
    LET p == call(p0, "create_project")
    IN  IF p.dir = "file" THEN raise(p, "NotADirectoryError")
        ELSE IF p.dir = "nonempty" THEN return(p, "False")
        ELSE IF p.dir = "absent" /\ ~mk_ok THEN return(p, "False")
        ELSE LET p1 == [p EXCEPT !.dir = "empty"]
             IN  IF ~chix_ok THEN return(p1, "False")
                 ELSE LET p2 == create_project_config(
                                    [p1 EXCEPT !.chix = TRUE, !.dir = "nonempty",
                                               !.project_path = ProjectDir],
                                    TRUE, fault)
                      IN  IF ~files_ok THEN return(p2, "False")
                          ELSE return([p2 EXCEPT !.scaffold =
                                        IF template THEN "dirs" ELSE "files"], "True")

\* MainPanel.toggle_minimap: the only handler that assigns one of the four
\* settings in the shared state.
do_toggle_minimap(p0, show_minimap) ==
    LET p == call(p0, "toggle_minimap")
        state == [p.state EXCEPT !.show_minimap = show_minimap]
    IN  [p EXCEPT !.state = state,
                  !.saved.changed = p.saved.changed \/ (state # p.saved.settings)]

\* The actions of SpecProject.  Every handler runs to its end in one step.
ProjCommit(p, tv) ==
    /\ proj' = p
    /\ CommitTabs(tv, p.op, NoTab, NoPath, "ok", p.ret)
    /\ UNCHANGED run

open_project(b, load_ok, mk_ok, fault, tab_load_ok) ==
    LET r == do_open_project(proj, TV, load_ok, mk_ok, fault, tab_load_ok)
    IN  /\ r.tv.tab_counter <= b.counter /\ Len(r.tv.tabs) <= b.tabs
        /\ ProjCommit(r.p, r.tv)

\* Without the .chix directory the config file cannot be opened for writing.
save_editor_state(fault) ==
    /\ ~proj.chix => fault = "open_fail"
    /\ ProjCommit(do_save_editor_state(proj, tabs, fault), TV)

\* os.makedirs(project_path) runs only when the path is absent.
create_project(template, mk_ok, chix_ok, fault, files_ok) ==
    /\ proj.dir # "absent" => mk_ok
    /\ ProjCommit(do_create_project(proj, template, mk_ok, chix_ok, fault, files_ok), TV)

toggle_minimap(show_minimap) ==
    /\ show_minimap \in BOOLEAN
    /\ ProjCommit(do_toggle_minimap(proj, show_minimap), TV)

\* A config that is in the directory before the program runs: one cut short,
\* one that holds a JSON array, and one with other settings and a recent file.
OtherConfig ==
    Dict([name |-> ProjectDir, created |-> "now",
          settings |-> [theme_mode |-> "light", tab_size |-> 2, word_wrap |-> TRUE],
          recent_files |-> <<"a.c">>])

InitProjects ==
    {ProjNew(dir, FALSE, NoFile) : dir \in {"absent", "file", "empty", "nonempty"}}
        \cup {ProjNew("nonempty", TRUE, config) :
                config \in {NoFile, File(Truncated), File(json_dump(List)),
                            File(json_dump(OtherConfig))}}

\* The files of Paths lie in ProjectDir.
InitProject ==
    /\ TabInit({NoFile, File(<<>>)})
    /\ run = RunIdle
    /\ proj \in InitProjects
    /\ (\E path \in Paths : disk[path].exists) => proj.dir = "nonempty"

NextProject ==
    \/ \E load_ok \in BOOLEAN, mk_ok \in BOOLEAN, fault \in Faults, tab_load_ok \in BOOLEAN :
            open_project(FileBounds, load_ok, mk_ok, fault, tab_load_ok)
    \/ \E fault \in Faults : save_editor_state(fault)
    \/ \E template \in BOOLEAN, mk_ok \in BOOLEAN, chix_ok \in BOOLEAN,
          fault \in Faults, files_ok \in BOOLEAN :
            create_project(template, mk_ok, chix_ok, fault, files_ok)
    \/ \E show_minimap \in BOOLEAN : toggle_minimap(show_minimap)
    \/ \E path \in Paths, load_ok \in BOOLEAN : open_file(FileBounds, path, load_ok)

SpecProject == InitProject /\ [][NextProject]_vars

(***************************************************************************)
(* Claims about TabView.                                                   *)
(***************************************************************************)

\* The tab of id t in the tab sequence ts (t must be open).
Tab(ts, t) == TabOf(ts, t)

\* C1: after construction, whenever a handler has returned, the tab
\* collection holds at least one tab.
C1_NeverEmpty == Len(tabs) >= 1

\* C1 witness: close_all_tabs has returned and left exactly the fresh blank
\* tab it created after the last tab was closed.
C1_Witness ==
    /\ last.op = "close_all_tabs"
    /\ Len(tabs) = 1
    /\ tabs[1].id = tab_counter - 1
    /\ tab_counter >= 3

\* C2: whenever a handler has returned, current_tab_id is a key of tabs, and
\* exactly one tab (that one) has its button active.
C2_ActiveIsOpen ==
    /\ current_tab_id \in KeySet(tabs)
    /\ DOMAIN tab_buttons = KeySet(tabs)
    /\ {b \in DOMAIN tab_buttons : tab_buttons[b].is_active} = {current_tab_id}

\* C2 witness: the active tab was closed while two other tabs were open.
C2_Witness ==
    /\ last.op = "close_tab"
    /\ last.was_current
    /\ Len(tabs) = 2
    /\ current_tab_id \in KeySet(tabs)

\* C3 (as claimed): a save_tab that fails on a tab whose file_path names an
\* existing file leaves that file's content as it was.
C3_FailedSaveKeepsFile ==
    [][\A t \in KeySet(tabs) : \A inp \in SaveInputsFor(Tab(tabs, t), Faults) :
          ( /\ save_tab(t, inp)
            /\ Tab(tabs, t).file_path # NoPath
            /\ disk[Tab(tabs, t).file_path].exists
            /\ last'.ret = "False" )
          => disk'[Tab(tabs, t).file_path] = disk[Tab(tabs, t).file_path]]_vars

\* C4: save_tab on an untitled tab sets file_path and clears modified exactly
\* when the dialog returned a path and the write succeeded, and then returns
\* True; otherwise it returns False and leaves modified and file_path alone.
C4_UntitledSave ==
    [][\A t \in KeySet(tabs) : \A inp \in SaveInputsFor(Tab(tabs, t), Faults) :
          (save_tab(t, inp) /\ Tab(tabs, t).file_path = NoPath)
          => IF inp.prompt # NoPath /\ inp.fault = "ok"
             THEN /\ last'.ret = "True"
                  /\ Tab(tabs', t).file_path = inp.prompt
                  /\ Tab(tabs', t).modified = FALSE
             ELSE /\ last'.ret = "False"
                  /\ Tab(tabs', t).file_path = NoPath
                  /\ Tab(tabs', t).modified = Tab(tabs, t).modified]_vars

\* C4 witness: save_tab on a modified untitled tab returned False because
\* the write to the path picked in the dialog failed; the tab is still
\* untitled and modified.
C4_Witness ==
    /\ last.op = "save_tab"
    /\ last.prompt # NoPath
    /\ last.fault # "ok"
    /\ last.ret = "False"
    /\ \E i \in 1 .. Len(tabs) : tabs[i].file_path = NoPath /\ tabs[i].modified

\* C5 (as claimed): a tab is created unmodified; an edit of its text makes it
\* modified; its flag is cleared only by a successful save of that tab, and
\* set only by an edit of that tab.
C5_ModifiedFlag ==
    [][/\ \A i \in 1 .. Len(tabs') :
             tabs'[i].id \notin KeySet(tabs) => tabs'[i].modified = FALSE
       /\ \A t \in KeySet(tabs) \cap KeySet(tabs') :
             /\ Tab(tabs', t).content # Tab(tabs, t).content
                   => Tab(tabs', t).modified
             /\ (Tab(tabs, t).modified /\ ~Tab(tabs', t).modified)
                   => \E inp \in SaveInputsFor(Tab(tabs, t), Faults) :
                         /\ save_tab(t, inp) \/ save_tab_as(t, inp.prompt, inp.fault)
                         /\ last'.ret = "True"
             /\ (~Tab(tabs, t).modified /\ Tab(tabs', t).modified)
                   => /\ t = current_tab_id
                      /\ last'.op \in {"key_release", "paste", "cut", "replace"}]_vars

\* C6: close_tab on the active tab makes the first remaining tab (in
\* insertion order) active, or the fresh blank tab when none remains.
C6_CloseActiveSelectsFirst ==
    [][\A t \in KeySet(tabs) : \A inp \in InputsFor(Tab(tabs, t)) :
          (close_tab(Bounds, t, inp) /\ t = current_tab_id)
          => LET rest == {i \in 1 .. Len(tabs) : tabs[i].id # t}
             IN  IF rest # {}
                 THEN LET first == CHOOSE i \in rest : \A j \in rest : i <= j
                      IN  /\ current_tab_id' = tabs[first].id
                          /\ KeySet(tabs') = KeySet(tabs) \ {t}
                 ELSE /\ Len(tabs') = 1
                      /\ current_tab_id' = tabs'[1].id
                      /\ tabs'[1].id = tab_counter
                      /\ tabs'[1].file_path = NoPath
                      /\ tabs'[1].content = <<>>
                      /\ tabs'[1].modified = FALSE]_vars

\* C6 witness: the active tab was closed with two tabs remaining, and the
\* first of them (not the last) is now active.
C6_Witness ==
    /\ last.op = "close_tab"
    /\ last.was_current
    /\ Len(tabs) = 2
    /\ current_tab_id = tabs[1].id
    /\ current_tab_id # tabs[2].id

\* C7: close_tab on a tab that is not the active one leaves current_tab_id,
\* state["active_editor"] and state["current_file"] unchanged.
C7_CloseInactiveKeepsActive ==
    [][\A t \in KeySet(tabs) : \A inp \in InputsFor(Tab(tabs, t)) :
          (close_tab(Bounds, t, inp) /\ t # current_tab_id)
          => /\ current_tab_id' = current_tab_id
             /\ active_editor' = active_editor
             /\ current_file' = current_file
             /\ t \notin KeySet(tabs')]_vars

\* C7 witness: a modified tab that was not active was closed after its save
\* succeeded; the active tab is not the first tab.
C7_Witness ==
    /\ last.op = "close_tab"
    /\ ~last.was_current
    /\ last.ret = "True"
    /\ Len(tabs) = 2
    /\ current_tab_id = tabs[2].id


\* C17: an autosave tick changes only snapshot files, and only the one named
\* by the temp_id of a modified tab, which then holds that tab's text; it
\* writes no file of the disk, and leaves the tabs (their modified flags,
\* file_paths and temp_ids) and the active tab as they were.  No step changes
\* the temp_id of a tab that stays open, whatever happens to its file_path.
C17_AutosaveOnlySnapshots ==
    [][/\ \A t \in KeySet(tabs) \cap KeySet(tabs') :
              Tab(tabs', t).temp_id = Tab(tabs, t).temp_id
       /\ (last'.op = "autosave") =>
              /\ disk' = disk
              /\ tabs' = tabs
              /\ current_tab_id' = current_tab_id
              /\ active_editor' = active_editor
              /\ current_file' = current_file
              /\ \A id \in TabIds :
                    temp'[id] # temp[id] =>
                        \E i \in 1 .. Len(tabs) :
                            /\ tabs[i].temp_id = id
                            /\ tabs[i].modified
                            /\ temp'[id] = File(tabs[i].content)]_vars

\* After an autosave, a modified tab with a file_path has its text in its
\* snapshot while its file holds something else.
C17_Witness ==
    /\ last.op = "autosave"
    /\ \E i \in 1 .. Len(tabs) :
          /\ tabs[i].modified /\ tabs[i].file_path # NoPath
          /\ tabs[i].content # <<>>
          /\ temp[tabs[i].temp_id] = File(tabs[i].content)
          /\ disk[tabs[i].file_path] # File(tabs[i].content)

\* C18 (as claimed): create_tab with the path of an existing file that can
\* be read creates the tab and makes it the active one, and the tab holds the
\* file's text: decoded as UTF-8, or as latin-1 when it is no valid UTF-8.
C18_LoadsWithFallback ==
    [][\A p \in Paths, k \in BOOLEAN :
          (disk[p].exists /\ create_tab(FileBounds, p, <<>>, TRUE, k))
          => /\ Len(tabs') = Len(tabs) + 1
             /\ current_tab_id' = tabs'[Len(tabs')].id
             /\ tabs'[Len(tabs')].file_path = p
             /\ tabs'[Len(tabs')].content =
                    (IF utf8_decodable(disk[p].content)
                     THEN utf8_decode(disk[p].content)
                     ELSE latin1_decode(disk[p].content))]_vars

\* C27: whenever a handler of TabView has returned, state["current_file"] is
\* the file_path of the active tab and state["active_editor"] is the editor of
\* the active tab.
C27_StateAgreesWithActiveTab ==
    /\ HasTab(tabs, current_tab_id)
    /\ current_file = Tab(tabs, current_tab_id).file_path
    /\ active_editor = current_tab_id

\* C27 witness: save_tab_as has given a path to a tab that is not the active
\* one, and the active tab is untitled.
C27_Witness ==
    /\ last.op = "save_tab_as" /\ last.ret = "True" /\ ~last.was_current
    /\ current_file = NoPath
    /\ \E i \in 1 .. Len(tabs) : tabs[i].id # current_tab_id /\ tabs[i].file_path = last.prompt

\* C28: a close_tab of an open tab removes that tab from the collection,
\* whatever the answer to the save prompt and the fate of the save.
C28_CloseRemovesTab ==
    [][\A t \in KeySet(tabs) : \A inp \in InputsFor(Tab(tabs, t)) :
          close_tab(Bounds, t, inp) => t \notin KeySet(tabs')]_vars

\* C28 witness: close_tab has returned after the save the user asked for
\* failed.
C28_Witness ==
    /\ last.op = "close_tab" /\ last.ret = "False"
    /\ Len(tabs) >= 1

\* C29: in every state a handler has left, close_other_tabs(keep) on an open
\* tab keep, with whatever the user answers to the prompts, leaves a
\* collection that holds the tab keep alone, and keep is the active tab.
C29_CloseOthersKeepsOne ==
    \A keep \in KeySet(tabs) : \A inps \in InputMaps(tabs) :
        LET tv == do_close_other_tabs(TV, keep, inps)
        IN  Keys(tv.tabs) = <<keep>> /\ tv.current_tab_id = keep

\* C29 witness: close_other_tabs has closed two tabs, the active one among
\* them, and kept the tab that was made second.
C29_Witness ==
    /\ last.op = "close_other_tabs" /\ ~last.was_current
    /\ tab_counter = 3
    /\ Keys(tabs) = <<1>>
    /\ current_tab_id = 1

\* C30 (as claimed): no two open tabs have the same file_path other than None.
C30_OneTabPerFile ==
    \A i \in 1 .. Len(tabs) : \A j \in 1 .. Len(tabs) :
        (i # j /\ tabs[i].file_path # NoPath) => tabs[i].file_path # tabs[j].file_path

(***************************************************************************)
(* Claims about the Compiler and the Interpreter.                          *)
(***************************************************************************)

\* C8 (as claimed): once the subprocess of compile has been running for more
\* than the 10 second bound, compile returns, whatever the subprocess does
\* meanwhile; it never waits indefinitely on the subprocess.
C8_TimeoutReturns ==
    (run.op = "compile" /\ InLoop /\ run.proc = "running" /\ run.elapsed > TIMEOUT)
        ~> (run.pc = "returned")

\* C9 (as claimed): when compile or interpret_file has returned its timeout
\* failure, the subprocess the call spawned is no longer running.
C9_TimeoutKillsSubprocess ==
    (/\ run.op \in {"compile", "interpret_file"}
     /\ run.pc = "returned"
     /\ run.result = timeout_result(run.op))
        => run.proc # "running"

\* C10 (as claimed): the detection run by the constructors, compile,
\* compile_and_run, interpret_file, interpret_code and analyze_code never
\* raise to their caller.
C10_NeverRaises ==
    ~(/\ run.pc = "raised"
      /\ run.site \in {"_detect_compiler", "_detect_tcc", "compile", "compile_and_run",
                       "interpret_file", "interpret_code", "analyze_code"})

IsErrorDiagnostic(line) ==
    line \in {ErrorLine, UpperErrorLine, QuotingErrorLine, LocalizedErrorLine}

\* C12 (as claimed): a compile whose compiler reported an error in the source
\* and exited nonzero returns success = FALSE with a non-empty errors list,
\* whatever the diagnostic text is; a compile whose compiler exited 0 returns
\* success = TRUE with an empty errors list.
C12_FailedCompileListsErrors ==
    (/\ run.op = "compile" /\ run.pc = "returned"
     /\ run.result.message \in {"Compilation failed with errors", "Compilation successful"})
        => /\ (run.rc # 0 /\ \E i \in 1 .. Len(run.stderr) : IsErrorDiagnostic(run.stderr[i]))
                => (~run.result.success /\ run.result.errors # <<>>)
           /\ (run.rc = 0) => (run.result.success /\ run.result.errors = <<>>)

\* C13 (as claimed): whenever interpret_code has returned, by any path, the
\* temporary source file it wrote no longer exists.
C13_TempFileRemoved ==
    (run.op = "interpret_code" /\ run.pc = "returned") => ~run.temp_file

\* C14: compile returns a failure result (success = FALSE, executable_path
\* None, errors not empty) and has spawned no subprocess when no compiler was
\* detected, when the source does not exist, or when the file at the output
\* path cannot be removed; the result is that of the first of the three checks,
\* in this order, that fails.
C14_ChecksBeforeSpawn ==
    [][\A s \in BOOLEAN, m \in BOOLEAN, e \in BOOLEAN, rm \in BOOLEAN :
          (/\ call_compile("compile", s, m, e, rm)
           /\ (run.path = "None" \/ ~s \/ (e /\ ~rm)))
          => /\ run'.pc = "returned"
             /\ ~run'.result.success
             /\ run'.result.executable_path = "None"
             /\ run'.result.errors # <<>>
             /\ run'.spawned = 0 /\ run'.proc = "none"
             /\ run'.result.errors =
                    (IF run.path = "None" THEN Entry("Compiler not found")
                     ELSE IF ~s THEN Entry("Source file not found")
                     ELSE Entry("Failed to remove old executable: "))]_vars

C14_Witness ==
    /\ run.op = "compile" /\ run.pc = "returned" /\ run.path # "None"
    /\ run.result.message = "Could not remove previous executable: "
    /\ run.spawned = 0

\* C15: in compile_and_run, when the compile succeeded and no Popen of the
\* executable started a process, the result returned has success = FALSE and
\* the launch-failure message, the process handle returned is None, and the
\* compiler was the only subprocess started (it ran once).
C15_LaunchFailure ==
    [][(run.pc = "launch" /\ run'.launched # "ok")
          => /\ run'.pc = "returned"
             /\ ~run'.result.success
             /\ run'.result.message = "Failed to run executable: "
             /\ run'.process = "None"
             /\ run'.spawned = 1]_vars

C15_Witness ==
    /\ run.op = "compile_and_run" /\ run.pc = "returned"
    /\ run.rc = 0 /\ run.stderr # <<>>
    /\ run.launched = "PermissionError"
    /\ run.result.message = "Failed to run executable: "
    /\ run.process = "None"

\* C16 (as claimed): the result that compile has returned to compile_and_run
\* is not modified afterwards: its fields keep the values of that return.
C16_ResultNotMutated ==
    [][(run.op = "compile_and_run" /\ run.pc = "launch") => run'.result = run.result]_vars

\* The class the parser gives a line: an entry of warnings, an entry of
\* errors, a note, or none of them.
IsWarningLine(line) == contains(line, "warning:")
IsErrorLine(line) == ~IsWarningLine(line) /\ contains(line, "error:")
IsNoteLine(line) == ~IsWarningLine(line) /\ ~IsErrorLine(line) /\ contains(line, "note:")

\* The entry that line j of the output started: warnings and errors keep the
\* order of the output.
EntryOf(j) ==
    IF IsWarningLine(run.output[j])
    THEN run.warnings[Cardinality({k \in 1 .. j : IsWarningLine(run.output[k])})]
    ELSE run.errors[Cardinality({k \in 1 .. j : IsErrorLine(run.output[k])})]

\* The line of the last warning or error before line i (0 when there is none).
Preceding(i) ==
    LET S == {j \in 1 .. (i - 1) : IsWarningLine(run.output[j]) \/ IsErrorLine(run.output[j])}
    IN  IF S = {} THEN 0 ELSE CHOOSE j \in S : \A k \in S : k <= j

InEntry(line, entry) == \E m \in 1 .. Len(entry) : entry[m] = line

\* C22 (as claimed): in the parsed output every note line is part of the
\* warning or error entry that comes last before it in the output, in
\* whichever of the two lists that entry is.
C22_NoteFollowsPrecedingEntry ==
    run.pc = "parsed" =>
        \A i \in 1 .. Len(run.output) :
            (IsNoteLine(run.output[i]) /\ Preceding(i) # 0)
                => InEntry(run.output[i], EntryOf(Preceding(i)))

\* C23 (as claimed): every non-empty line of the compiler's output is part of
\* some entry of the parsed warnings or errors.
C23_NoLineDropped ==
    run.pc = "parsed" =>
        \A i \in 1 .. Len(run.output) :
            run.output[i] # BlankLine
                => \/ \E e \in 1 .. Len(run.warnings) : InEntry(run.output[i], run.warnings[e])
                   \/ \E e \in 1 .. Len(run.errors) : InEntry(run.output[i], run.errors[e])

(***************************************************************************)
(* Claims about the Runner (SpecRunner).                                   *)
(***************************************************************************)
\* A step is a call of stop_execution on the Runner of run r.
StopStep(r) == run'.stop.calls = run.stop.calls + 1 /\ run'.stop.runner = r

C24_SubprocessesOnWorker ==
    \A i \in run.invocations : i.thread = "worker"

\* C25: the temp file has one name for every invocation, so tcc is given what
\* the last write or remove of any invocation left there: the code of another
\* run, or no file at all.
C25_SharedTempFile ==
    [][\A r \in RunIds :
          (run.runs[r].worker = "run" /\ run'.runs[r].worker = "remove")
              => run'.runs[r].interpreted = run.last_written]_vars

\* Run 1 was given the code of run 2, and run 2, whose code tcc had run,
\* returned an error because run 1 had removed the file first.
C25_Witness ==
    /\ run.runs[1].interpreted = code_of(2)
    /\ run.runs[2].interpreted = code_of(2)
    /\ run.runs[2].result = "Interpretation error"
    /\ run.runs[1].worker = "done" /\ run.runs[2].worker = "done"

\* C26: no step of the UI thread for one run touches the worker of another
\* run, so a worker that is outstanding when a newer run clears the pane goes
\* on to insert its lines.
C26_NothingCancelsOlderRun ==
    [][\A r \in RunIds : \A q \in RunIds \ {r} :
          run'.runs[r].ui # run.runs[r].ui => run'.runs[q] = run.runs[q]]_vars

\* After run 2 cleared the pane, the pane holds the result line of run 1, then
\* that of run 2, then the rest of the result of run 1.
C26_Witness ==
    /\ run.cleared_by = 2
    /\ \E j, k, m \in 1 .. Len(run.pane) :
          /\ j < k /\ k < m
          /\ run.pane[j].run = 1 /\ run.pane[j].text \in {"[SUCCESS]", "[ERROR]"}
          /\ run.pane[k].run = 2 /\ run.pane[k].text \in {"[SUCCESS]", "[ERROR]"}
          /\ run.pane[m].run = 1 /\ run.pane[m].text = run.runs[1].result

(***************************************************************************)
(* Claims about the ProjectManager (SpecProject).                          *)
(***************************************************************************)
\* C19: the settings round trip through the sidecar config.  When
\* save_editor_state has written the config and no read or write of the config
\* has failed since, an open_project of the directory that loads the config
\* leaves theme_mode, tab_size, word_wrap and show_minimap of the shared state
\* at the values they had when save_editor_state ran, whatever the state was
\* changed to in between.
C19_SettingsRoundTrip ==
    [][(/\ last'.op = "open_project"
        /\ proj'.loaded
        /\ proj.saved.valid)
            => proj'.state = proj.saved.settings]_vars

\* An open_project found no config and made one, the settings were saved, the
\* state was changed, and a later open_project has loaded the saved values.
C19_Witness ==
    /\ proj.op = "open_project" /\ proj.loaded /\ proj.ret = "True"
    /\ proj.created
    /\ proj.saved.valid /\ proj.saved.changed
    /\ proj.state = proj.saved.settings

\* C20 (as claimed): open_project, create_project and save_editor_state never
\* raise to the UI event loop; every file I/O failure ends in a False or None
\* return or in a step that is logged and passed over.
C20_NeverRaisesIntoUI ==
    proj.op \in {"open_project", "create_project", "save_editor_state"}
        => proj.raised = "None"

====
